---- MODULE Spec2Model ----
(***************************************************************************)
(* Model of obsidian-calendar-summary (src/src/main.rs): the front-matter  *)
(* parser parse_cal_file, the filter and sort of get_valid_events, the     *)
(* Display rendering of an event, and main's print loop.                   *)
(*                                                                         *)
(* Text is a sequence of symbols.  The punctuation the parser looks at     *)
(* (" ", "-", ":", "[", "]", ",") is one symbol per character; a word with *)
(* none of these at a place the parser inspects ("title", "2024-06-03",    *)
(* "09:00" as a value) is one symbol.  A document is the sequence of its   *)
(* lines, as contents.lines() yields them.                                 *)
(*                                                                         *)
(* Dates are day numbers counted from Monday 2024-06-03 (day 0); times of  *)
(* day are seconds since midnight.                                         *)
(***************************************************************************)
EXTENDS Integers, Sequences, FiniteSets, TLC

VARIABLES
    clock,      \* the local wall clock, [date, time], read by chrono::Local::now()
    docs,       \* the documents the directories named on the command line hold, in enumeration order
    pc,         \* position of the process: "start", "parse", "print", "report", "done"
    now,        \* get_valid_events' local `now`
    idx,        \* index of the next document parse_events maps over
    parsed,     \* the events collected so far
    events,     \* get_valid_events' `events` after filter and sort_by
    out,        \* the lines written to stdout, each with the time Display read
    err,        \* the diagnostic written to stderr (<<>> when none)
    ret,        \* the error get_valid_events returned (<<>> when none)
    outcome     \* "running", "Ok", "Err" (main's Err arm), "Panic" (unwind out of main)

vars == <<clock, docs, pc, now, idx, parsed, events, out, err, ret, outcome>>

----------------------------------------------------------------------------
(* Bounds *)

MaxDocs == 3        \* documents per run in Spec
MaxValLen == 4      \* symbols in a generated daysOfWeek value
MaxDay == 8         \* last day number the clock reaches
MaxTicks == 2       \* clock readings the clock may run ahead of `now` within a run

----------------------------------------------------------------------------
(* str helpers *)

Range(s) == {s[i] : i \in DOMAIN s}

\* str::find(ch): 1-based position of the first occurrence, 0 for None
Find(s, ch) ==
    IF \E i \in DOMAIN s : s[i] = ch
    THEN CHOOSE i \in DOMAIN s : s[i] = ch /\ \A j \in 1..(i-1) : s[j] # ch
    ELSE 0

Tail0(s, n) == SubSeq(s, n + 1, Len(s))

\* number of leading symbols of s that lie in set
LeadRun(s, set) ==
    IF \E i \in DOMAIN s : s[i] \notin set
    THEN (CHOOSE i \in DOMAIN s : s[i] \notin set /\ \A j \in 1..(i-1) : s[j] \in set) - 1
    ELSE Len(s)

\* str::trim_start
trim_start(s) == Tail0(s, LeadRun(s, {" "}))

\* str::trim_start_matches(|c| c.is_whitespace() || c == '-')
trim_start_matches_ws_dash(s) == Tail0(s, LeadRun(s, {" ", "-"}))

\* str::starts_with(ch)
starts_with(s, ch) == Len(s) > 0 /\ s[1] = ch

\* str::split(','): the pieces between commas; always at least one piece
RECURSIVE split(_, _)
split(s, ch) ==
    LET c == Find(s, ch) IN
    IF c = 0 THEN <<s>>
    ELSE <<SubSeq(s, 1, c - 1)>> \o split(Tail0(s, c), ch)

----------------------------------------------------------------------------
(* Result values *)

Ok(v) == [tag |-> "Ok", val |-> v, msg |-> <<>>]
Err(m) == [tag |-> "Err", val |-> <<>>, msg |-> m]
Panic(m) == [tag |-> "Panic", val |-> <<>>, msg |-> m]

\* HeaderValue::One / HeaderValue::Many
One(s) == [many |-> FALSE, one |-> s, list |-> <<>>]
Many(v) == [many |-> TRUE, one |-> <<>>, list |-> v]

Delim == <<"-", "-", "-">>

\* HashMap::insert: the last value for a key wins
Insert(h, key, v) == [k \in (DOMAIN h) \cup {key} |-> IF k = key THEN v ELSE h[k]]

\* the inline form of daysOfWeek (value not empty)
InlineList(value) ==
    LET open == Find(value, "[")
        close == Find(value, "]")
    IN  IF open = 0 THEN Err(<<"Cannot find opening [ on list">>)
        ELSE IF close = 0 THEN Err(<<"Cannot find closing ] on list">>)
        ELSE IF close < open THEN Panic(<<"slice index starts after end">>)
        ELSE Ok([k \in 1..Len(split(SubSeq(value, open + 1, close - 1), ","))
                    |-> trim_start(split(SubSeq(value, open + 1, close - 1), ",")[k])])

\* lines.next_if(...) repeated: how many lines from position i on start,
\* after leading whitespace, with '-'
RECURSIVE BlockRun(_, _)
BlockRun(lines, i) ==
    IF i <= Len(lines) /\ starts_with(trim_start(lines[i]), "-")
    THEN 1 + BlockRun(lines, i + 1)
    ELSE 0

\* the `while let Some(line) = lines.next()` loop of parse_cal_file
RECURSIVE HeaderLoop(_, _, _, _)
HeaderLoop(lines, i, in_header, h) ==
    IF i > Len(lines) THEN Ok(h)
    ELSE IF lines[i] = Delim
         THEN IF in_header THEN Ok(h) ELSE HeaderLoop(lines, i + 1, TRUE, h)
    ELSE IF ~in_header THEN HeaderLoop(lines, i + 1, FALSE, h)
    ELSE IF Find(lines[i], ":") = 0 THEN Panic(<<"unwrap on None">>)
    ELSE LET c == Find(lines[i], ":")
             key == SubSeq(lines[i], 1, c - 1)
             value == Tail0(lines[i], c)
         IN  IF key = <<"daysOfWeek">>
             THEN IF value = <<>>
                  THEN LET n == BlockRun(lines, i + 1)
                           days == [k \in 1..n |-> trim_start_matches_ws_dash(lines[i + k])]
                       IN  HeaderLoop(lines, i + n + 1, TRUE, Insert(h, key, Many(days)))
                  ELSE LET r == InlineList(value)
                       IN  IF r.tag # "Ok" THEN r
                           ELSE HeaderLoop(lines, i + 1, TRUE, Insert(h, key, Many(r.val)))
             ELSE HeaderLoop(lines, i + 1, TRUE, Insert(h, key, One(trim_start(value))))

get_one(h, name) ==
    IF <<name>> \notin DOMAIN h THEN Err(<<"Has no", name>>)
    ELSE IF h[<<name>>].many THEN Err(<<"is a list", name>>)
    ELSE Ok(h[<<name>>].one)

get_many(h, name) ==
    IF <<name>> \notin DOMAIN h THEN Err(<<"Has no", name>>)
    ELSE IF ~h[<<name>>].many THEN Err(<<"is not a list", name>>)
    ELSE Ok(h[<<name>>].list)

unwrap_or(r, d) == IF r.tag = "Ok" THEN r.val ELSE d

----------------------------------------------------------------------------
(* chrono *)

HMS(h, m, s) == h * 3600 + m * 60 + s

\* the dates the model's documents can name, as day numbers from Monday 2024-06-03
DateTable ==
    ("2024-06-03" :> 0) @@ ("2024-06-04" :> 1) @@ ("2024-06-05" :> 2) @@ ("2024-06-10" :> 7)

\* the times of day the model's documents can name
TimeTable ==
    ("08:00" :> HMS(8, 0, 0)) @@ ("09:00" :> HMS(9, 0, 0)) @@
    ("09:30" :> HMS(9, 30, 0)) @@ ("11:00" :> HMS(11, 0, 0))

\* <NaiveDate as FromStr>::from_str on the model's texts
ParseDate(v) ==
    IF Len(v) = 1 /\ v[1] \in DOMAIN DateTable THEN Ok(DateTable[v[1]])
    ELSE Err(<<"ParseError">>)

\* <NaiveTime as FromStr>::from_str on the model's texts
ParseTime(v) ==
    IF Len(v) = 1 /\ v[1] \in DOMAIN TimeTable THEN Ok(TimeTable[v[1]])
    ELSE Err(<<"ParseError">>)

WeekdayNames == <<"Mon", "Tue", "Wed", "Thu", "Fri", "Sat", "Sun">>

\* Datelike::weekday
weekday(d) == WeekdayNames[(d % 7) + 1]

\* the match on weekday codes in parse_cal_file
WeekdayCode(day) ==
    IF day = <<"M">> THEN Ok("Mon")
    ELSE IF day = <<"T">> THEN Ok("Tue")
    ELSE IF day = <<"W">> THEN Ok("Wed")
    ELSE IF day = <<"R">> THEN Ok("Thu")
    ELSE IF day = <<"F">> THEN Ok("Fri")
    ELSE IF day = <<"S">> THEN Ok("Sat")
    ELSE IF day = <<"U">> THEN Ok("Sun")
    ELSE Err(<<"Unknown weekday", day>>)

\* Duration::num_minutes / num_hours: the quotient truncated toward zero
TruncDiv(a, b) == IF a >= 0 THEN a \div b ELSE -((-a) \div b)

----------------------------------------------------------------------------
(* Event builder: the tail of parse_cal_file *)

\* the `?` operator over expressions evaluated in order: the first failure, or Ok
FirstFailure(rs) ==
    IF \E i \in DOMAIN rs : rs[i].tag # "Ok"
    THEN rs[CHOOSE i \in DOMAIN rs : rs[i].tag # "Ok" /\ \A j \in 1..(i-1) : rs[j].tag = "Ok"]
    ELSE Ok(<<>>)

\* get_one(name)?.parse()? for a date and for a time of day
DateOf(r) == IF r.tag = "Ok" THEN ParseDate(r.val) ELSE r
TimeOf(r) == IF r.tag = "Ok" THEN ParseTime(r.val) ELSE r

BuildAllDay(h) ==
    LET title == get_one(h, "title")
        begin_date == DateOf(get_one(h, "date"))
        end_date == IF get_one(h, "endDate").tag = "Ok"
                    THEN ParseDate(get_one(h, "endDate").val)
                    ELSE DateOf(get_one(h, "date"))
        f == FirstFailure(<<title, begin_date, end_date>>)
    IN  IF f.tag # "Ok" THEN f
        ELSE Ok([kind |-> "AllDay", title |-> title.val,
                 begin_date |-> begin_date.val, end_date |-> end_date.val])

BuildOnce(h) ==
    LET title == get_one(h, "title")
        begin == TimeOf(get_one(h, "startTime"))
        end == TimeOf(get_one(h, "endTime"))
        day == DateOf(get_one(h, "date"))
        f == FirstFailure(<<title, begin, end, day>>)
    IN  IF f.tag # "Ok" THEN f
        ELSE Ok([kind |-> "Once", title |-> title.val,
                 begin |-> begin.val, end |-> end.val, day |-> day.val])

\* end_recur: None is <<>>, Some(d) is <<d>>
EndRecur(h) ==
    LET g == get_one(h, "endRecur") IN
    IF g.tag # "Ok" THEN Ok(<<>>)
    ELSE IF g.val = <<"\"\"">> THEN Ok(<<>>)
    ELSE LET p == ParseDate(g.val) IN IF p.tag = "Ok" THEN Ok(<<p.val>>) ELSE p

\* .iter().map(code -> Weekday).collect::<Result<Vec<Weekday>, CalError>>()
RecurDays(h) ==
    LET g == get_many(h, "daysOfWeek") IN
    IF g.tag # "Ok" THEN g
    ELSE LET ds == [k \in DOMAIN g.val |-> WeekdayCode(g.val[k])]
             f == FirstFailure(ds)
         IN  IF f.tag # "Ok" THEN f ELSE Ok([k \in DOMAIN ds |-> ds[k].val])

BuildRecurring(h) ==
    LET title == get_one(h, "title")
        begin == TimeOf(get_one(h, "startTime"))
        end == TimeOf(get_one(h, "endTime"))
        begin_recur == DateOf(get_one(h, "startRecur"))
        end_recur == EndRecur(h)
        recur_days == RecurDays(h)
        f == FirstFailure(<<title, begin, end, begin_recur, end_recur, recur_days>>)
    IN  IF f.tag # "Ok" THEN f
        ELSE Ok([kind |-> "Recurring", title |-> title.val,
                 begin |-> begin.val, end |-> end.val,
                 begin_recur |-> begin_recur.val, end_recur |-> end_recur.val,
                 recur_days |-> recur_days.val])

BuildEvent(h) ==
    IF unwrap_or(get_one(h, "allDay"), <<"false">>) = <<"true">> THEN BuildAllDay(h)
    ELSE IF unwrap_or(get_one(h, "type"), <<"single">>) = <<"single">> THEN BuildOnce(h)
    ELSE BuildRecurring(h)

parse_cal_file(contents) ==
    LET hr == HeaderLoop(contents, 1, FALSE, <<>>) IN
    IF hr.tag # "Ok" THEN hr ELSE BuildEvent(hr.val)

----------------------------------------------------------------------------
(* get_valid_events: the filter closure and the sort_by comparator *)

IsTimed(e) == e.kind \in {"Once", "Recurring"}

\* IsActive with the last day of a recurrence left out
IsActiveEndExclusive(e, t) ==
    IF e.kind = "Once" THEN e.day = t.date /\ e.end >= t.time
    ELSE IF e.kind = "Recurring"
    THEN /\ weekday(t.date) \in Range(e.recur_days)
         /\ t.date >= e.begin_recur
         /\ (IF e.end_recur = <<>> THEN TRUE ELSE t.date < e.end_recur[1])
         /\ e.end >= t.time
    ELSE t.date >= e.begin_date /\ t.date < e.end_date

\* IsActive with a single event hidden once it has begun
IsActiveUntilBegin(e, t) ==
    IF e.kind = "Once" THEN e.day = t.date /\ e.begin >= t.time
    ELSE IF e.kind = "Recurring"
    THEN /\ weekday(t.date) \in Range(e.recur_days)
         /\ t.date >= e.begin_recur
         /\ (IF e.end_recur = <<>> THEN TRUE ELSE t.date <= e.end_recur[1])
         /\ e.end >= t.time
    ELSE t.date >= e.begin_date /\ t.date < e.end_date

IsActive(e, t) ==
    IF e.kind = "Once" THEN e.day = t.date /\ e.end >= t.time
    ELSE IF e.kind = "Recurring"
    THEN /\ weekday(t.date) \in Range(e.recur_days)
         /\ t.date >= e.begin_recur
         /\ (IF e.end_recur = <<>> THEN TRUE ELSE t.date <= e.end_recur[1])
         /\ e.end >= t.time
    ELSE t.date >= e.begin_date /\ t.date < e.end_date

IntCmp(x, y) == IF x < y THEN "Less" ELSE IF x > y THEN "Greater" ELSE "Equal"

\* cmp with the two all-day arms exchanged
cmpAllDayLast(a, b) ==
    IF IsTimed(a)
    THEN IF IsTimed(b) THEN IntCmp(a.begin, b.begin) ELSE "Less"
    ELSE "Greater"

cmp(a, b) ==
    IF IsTimed(a)
    THEN IF IsTimed(b) THEN IntCmp(a.begin, b.begin) ELSE "Greater"
    ELSE "Less"

is_less(a, b) == cmp(a, b) = "Less"

\* slice::sort_by on a slice of at most 20 elements is an insertion sort; which
\* one depends on the standard library the build links.
\* insertion_sort_shift_left: each element in turn moves left past the
\* elements it is less than.
RECURSIVE TrailRun(_, _)
TrailRun(s, x) ==
    IF s = <<>> \/ ~is_less(x, s[Len(s)]) THEN 0
    ELSE 1 + TrailRun(SubSeq(s, 1, Len(s) - 1), x)

insert_tail(s, x) ==
    LET k == TrailRun(s, x) IN
    SubSeq(s, 1, Len(s) - k) \o <<x>> \o SubSeq(s, Len(s) - k + 1, Len(s))

RECURSIVE ShiftLeftFrom(_, _)
ShiftLeftFrom(v, i) ==
    IF i > Len(v) THEN v
    ELSE ShiftLeftFrom(insert_tail(SubSeq(v, 1, i - 1), v[i]) \o Tail0(v, i), i + 1)

insertion_sort_shift_left(v) == ShiftLeftFrom(v, 2)

\* The merge sort of older standard libraries sorts a short slice from the
\* right: each element in turn moves right past the elements less than it.
RECURSIVE LeadLess(_, _)
LeadLess(s, x) ==
    IF s = <<>> \/ ~is_less(s[1], x) THEN 0
    ELSE 1 + LeadLess(Tail(s), x)

insert_head(s) ==
    IF Len(s) < 2 THEN s
    ELSE LET k == LeadLess(Tail(s), s[1]) IN
         SubSeq(s, 2, k + 1) \o <<s[1]>> \o Tail0(s, k + 1)

RECURSIVE InsertHeadFrom(_, _)
InsertHeadFrom(v, i) ==
    IF i < 1 THEN v
    ELSE InsertHeadFrom(SubSeq(v, 1, i - 1) \o insert_head(Tail0(v, i - 1)), i - 1)

insertion_sort_insert_head(v) == InsertHeadFrom(v, Len(v) - 1)

SortImpls == {"shift_left", "insert_head"}

sort_by(v, impl) ==
    IF impl = "shift_left" THEN insertion_sort_shift_left(v)
    ELSE insertion_sort_insert_head(v)

filter(es, t) == SelectSeq(es, LAMBDA e : IsActive(e, t))

----------------------------------------------------------------------------
(* <Event as Display>::fmt, given the time of day it reads *)

Plural(n, unit) == IF n # 1 THEN <<unit, "s">> ELSE <<unit>>

\* the text between the times and the bar
delta_text(begin, t) ==
    LET delta == begin - t IN
    IF TruncDiv(delta, 60) < 0 THEN [kind |-> "Now", n |-> 0, unit |-> <<>>]
    ELSE IF TruncDiv(delta, 60) < 60
    THEN [kind |-> "min", n |-> TruncDiv(delta, 60), unit |-> Plural(TruncDiv(delta, 60), "min")]
    ELSE [kind |-> "hour", n |-> TruncDiv(delta, 3600),
          unit |-> Plural(TruncDiv(delta, 3600), "hour")]

\* NaiveDate::format("%b %d") for the days of June 2024 the model reaches
FormatBD(d) == <<"Jun", d + 3>>

fmt(e, t) ==
    IF IsTimed(e)
    THEN [form |-> "timed",
          times |-> <<e.begin \div 3600, (e.begin % 3600) \div 60,
                      e.end \div 3600, (e.end % 3600) \div 60>>,
          delta |-> delta_text(e.begin, t),
          title |-> e.title]
    ELSE IF e.end_date - e.begin_date = 1
    THEN [form |-> "Today", title |-> e.title]
    ELSE [form |-> "range", from |-> FormatBD(e.begin_date),
          to |-> FormatBD(e.end_date - 1), title |-> e.title]

----------------------------------------------------------------------------
(* The clock *)

ClockTimes == {HMS(8, 0, 0), HMS(8, 59, 30), HMS(9, 0, 30), HMS(9, 30, 0), HMS(10, 0, 0)}

ClockSet == {d * 86400 + t : d \in 0..MaxDay, t \in ClockTimes}

\* chrono::Local::now().naive_local()
Sample(c) == [date |-> c \div 86400, time |-> c % 86400]

Unsampled == [date |-> -1, time |-> 0]

\* position of a clock reading among the readings of ClockSet
Rank == [c \in ClockSet |-> Cardinality({x \in ClockSet : x < c})]

----------------------------------------------------------------------------
(* The documents the runs read *)

KV(k, v) == <<k, ":", " ">> \o v

Doc(header) == <<Delim>> \o header \o <<Delim, <<"Notes">>>>

SeqsUpTo(S, n) == UNION {[1..k -> S] : k \in 1..n}

\* all-day events, with and without endDate
AllDayDocs ==
    {Doc(<<KV("title", <<"Fair">>), KV("allDay", <<"true">>), KV("date", <<d>>)>> \o e) :
        d \in {"2024-06-03", "2024-06-04"},
        e \in {<<>>} \cup {<<KV("endDate", <<x>>)>> : x \in {"2024-06-03", "2024-06-04", "2024-06-05"}}}

\* single events, some ending before they begin
OnceDocs ==
    {Doc(ty \o <<KV("title", <<"Standup">>), KV("date", <<d>>),
                 KV("startTime", <<t[1]>>), KV("endTime", <<t[2]>>)>>) :
        ty \in {<<>>, <<KV("type", <<"single">>)>>},
        d \in {"2024-06-03", "2024-06-04"},
        t \in {<<"09:00", "09:30">>, <<"09:00", "08:00">>, <<"08:00", "11:00">>}}

\* the two forms of the daysOfWeek list
DaysLines ==
    { <<KV("daysOfWeek", <<"[", "M", ",", " ", "W", "]">>)>>,
      <<KV("daysOfWeek", <<"[", "U", "]">>)>>,
      << <<"daysOfWeek", ":">>, <<" ", " ", "-", " ", "T">>, <<" ", " ", "-", " ", "R">> >>,
      << <<"daysOfWeek", ":">> >> }

RecurringDocs ==
    {Doc(<<KV("type", <<"recurring">>), KV("title", <<"Gym">>)>> \o dl \o er \o
         <<KV("startRecur", <<sr>>), KV("startTime", <<t[1]>>), KV("endTime", <<t[2]>>)>>) :
        dl \in DaysLines,
        er \in {<<>>} \cup {<<KV("endRecur", <<x>>)>> : x \in {"\"\"", "2024-06-05", "2024-06-10"}},
        sr \in {"2024-06-03", "2024-06-04"},
        t \in {<<"09:00", "09:30">>, <<"08:00", "11:00">>}}

EventDocs == AllDayDocs \cup OnceDocs \cup RecurringDocs

\* recurring documents over every short daysOfWeek value
ValueSymbols == {"[", "]", ",", " ", "M"}

InlineDocs ==
    {Doc(<<KV("type", <<"recurring">>), <<"daysOfWeek", ":">> \o v, KV("title", <<"Gym">>),
           KV("startRecur", <<"2024-06-03">>), KV("startTime", <<"09:00">>),
           KV("endTime", <<"09:30">>)>>) : v \in SeqsUpTo(ValueSymbols, MaxValLen)}

\* malformed and unusual documents
OddDocs ==
    { << <<"Notes">> >>,
      Doc(<<KV("title", <<"Standup">>), <<"oops">>>>),
      Doc(<<KV("date", <<"2024-06-03">>), KV("startTime", <<"09:00">>), KV("endTime", <<"09:30">>)>>),
      Doc(<<KV("title", <<"Standup">>), KV("date", <<"someday">>),
            KV("startTime", <<"09:00">>), KV("endTime", <<"09:30">>)>>),
      Doc(<<KV("title", <<"Standup">>), KV("date", <<"2024-06-03">>),
            KV("startTime", <<"soon">>), KV("endTime", <<"09:30">>)>>),
      Doc(<<KV("type", <<"weekly">>), KV("title", <<"Gym">>), KV("daysOfWeek", <<"[", "X", "]">>),
            KV("startRecur", <<"2024-06-03">>), KV("startTime", <<"09:00">>),
            KV("endTime", <<"09:30">>)>>),
      Doc(<<KV("type", <<"weekly">>), KV("title", <<"Gym">>),
            KV("startRecur", <<"2024-06-03">>), KV("startTime", <<"09:00">>),
            KV("endTime", <<"09:30">>)>>),
      Doc(<<KV("type", <<"weekly">>), KV("title", <<"Gym">>),
            KV("startRecur", <<"2024-06-03">>), KV("startTime", <<"09:00">>),
            KV("endTime", <<"09:30">>), <<"daysOfWeek", ":">>>>),
      Doc(<<KV("title", <<"Standup">>), KV("title", <<"Retro">>), KV("date", <<"2024-06-03">>),
            KV("startTime", <<"09:00">>), KV("endTime", <<"09:30">>),
            KV("daysOfWeek", <<"M">>)>>),
      <<Delim, KV("title", <<"Standup">>), KV("date", <<"2024-06-03">>),
        KV("startTime", <<"09:00">>), KV("endTime", <<"09:30">>)>> }

ParserDocs == InlineDocs \cup OddDocs

\* the documents of the runs over several documents
FairA == Doc(<<KV("allDay", <<"true">>), KV("title", <<"Fair">>),
               KV("date", <<"2024-06-03">>), KV("endDate", <<"2024-06-05">>)>>)
FairB == Doc(<<KV("allDay", <<"true">>), KV("title", <<"Holiday">>),
               KV("date", <<"2024-06-03">>), KV("endDate", <<"2024-06-04">>)>>)
Standup == Doc(<<KV("title", <<"Standup">>), KV("date", <<"2024-06-03">>),
                 KV("startTime", <<"09:00">>), KV("endTime", <<"09:30">>)>>)
Review == Doc(<<KV("title", <<"Review">>), KV("date", <<"2024-06-03">>),
                KV("startTime", <<"09:00">>), KV("endTime", <<"11:00">>)>>)
Gym == Doc(<<KV("type", <<"weekly">>), KV("title", <<"Gym">>),
             KV("daysOfWeek", <<"[", "M", ",", " ", "W", "]">>),
             KV("startRecur", <<"2024-06-03">>), KV("startTime", <<"08:00">>),
             KV("endTime", <<"11:00">>)>>)
NoColon == Doc(<<KV("title", <<"Standup">>), <<"oops">>>>)
NoTitle == Doc(<<KV("date", <<"2024-06-03">>), KV("startTime", <<"09:00">>),
                 KV("endTime", <<"09:30">>)>>)

RunDocs == {FairA, FairB, Standup, Review, Gym, NoColon, NoTitle}

----------------------------------------------------------------------------
(* The run: main and get_valid_events *)

InitRest ==
    /\ pc = "start"
    /\ now = Unsampled
    /\ idx = 1
    /\ parsed = <<>>
    /\ events = <<>>
    /\ out = <<>>
    /\ err = <<>>
    /\ ret = <<>>
    /\ outcome = "running"

\* runs over up to MaxDocs documents, started on day 0 around 09:00
Init ==
    /\ docs \in UNION {[1..n -> RunDocs] : n \in 0..MaxDocs}
    /\ clock \in {HMS(8, 59, 30), HMS(9, 0, 30)}
    /\ InitRest

\* runs over one document, started at any clock reading
InitOne ==
    /\ \/ docs \in {<<d>> : d \in EventDocs} /\ clock \in ClockSet
       \/ docs \in {<<d>> : d \in ParserDocs} /\ clock = HMS(9, 0, 30)
    /\ InitRest

\* time passes while the run is between two steps
Tick ==
    /\ pc \notin {"start", "done"}
    /\ \E c \in ClockSet :
          /\ c > clock
          /\ Rank[c] - Rank[now.date * 86400 + now.time] <= MaxTicks
          /\ clock' = c
    /\ UNCHANGED <<docs, pc, now, idx, parsed, events, out, err, ret, outcome>>

\* let now = chrono::Local::now().naive_local();
SampleNow ==
    /\ pc = "start"
    /\ now' = Sample(clock)
    /\ pc' = "parse"
    /\ UNCHANGED <<clock, docs, idx, parsed, events, out, err, ret, outcome>>

\* ParseNext that skips a document it cannot parse and goes on
ParseNextSkip ==
    /\ pc = "parse"
    /\ idx <= Len(docs)
    /\ LET r == parse_cal_file(docs[idx]) IN
          \/ /\ r.tag = "Ok"
             /\ parsed' = Append(parsed, r.val)
          \/ /\ r.tag # "Ok"
             /\ UNCHANGED parsed
    /\ idx' = idx + 1
    /\ UNCHANGED <<clock, docs, pc, now, events, out, err, ret, outcome>>

\* one step of .map(parse_events).collect::<Result<..>>(): the next document
ParseNext ==
    /\ pc = "parse"
    /\ idx <= Len(docs)
    /\ LET r == parse_cal_file(docs[idx]) IN
          \/ /\ r.tag = "Ok"
             /\ parsed' = Append(parsed, r.val)
             /\ idx' = idx + 1
             /\ UNCHANGED <<pc, err, ret, outcome>>
          \/ /\ r.tag = "Err"
             /\ ret' = r.msg
             /\ pc' = "report"
             /\ UNCHANGED <<parsed, idx, err, outcome>>
          \/ /\ r.tag = "Panic"
             /\ err' = <<"thread 'main' panicked", r.msg>>
             /\ outcome' = "Panic"
             /\ pc' = "done"
             /\ UNCHANGED <<parsed, idx, ret>>
    /\ UNCHANGED <<clock, docs, now, events, out>>

\* .filter(..).collect(); events.sort_by(..); Ok(events)
FilterSort ==
    /\ pc = "parse"
    /\ idx > Len(docs)
    /\ \E impl \in SortImpls : events' = sort_by(filter(parsed, now), impl)
    /\ pc' = "print"
    /\ UNCHANGED <<clock, docs, now, idx, parsed, out, err, ret, outcome>>

\* println!("{}", event) for the next event
PrintNext ==
    /\ pc = "print"
    /\ Len(out) < Len(events)
    /\ out' = Append(out, [at |-> Sample(clock),
                           text |-> fmt(events[Len(out) + 1], Sample(clock).time)])
    /\ UNCHANGED <<clock, docs, pc, now, idx, parsed, events, err, ret, outcome>>

\* the for loop of main's Ok arm ends
Finish ==
    /\ pc = "print"
    /\ Len(out) = Len(events)
    /\ pc' = "done"
    /\ outcome' = "Ok"
    /\ UNCHANGED <<clock, docs, now, idx, parsed, events, out, err, ret>>

\* main's Err arm: eprintln!("Error processing event files: {}", e)
ReportError ==
    /\ pc = "report"
    /\ err' = <<"Error processing event files", ret>>
    /\ outcome' = "Err"
    /\ pc' = "done"
    /\ UNCHANGED <<clock, docs, now, idx, parsed, events, out, ret>>

Next ==
    \/ Tick
    \/ SampleNow
    \/ ParseNext
    \/ FilterSort
    \/ PrintNext
    \/ Finish
    \/ ReportError

Spec == Init /\ [][Next]_vars

SpecOne == InitOne /\ [][Next]_vars

----------------------------------------------------------------------------
(* Properties *)

Count(seq, e) == Cardinality({i \in DOMAIN seq : seq[i] = e})

\* get_valid_events has returned Ok(events)
Filtered == pc = "print" \/ (pc = "done" /\ outcome = "Ok")

Kept(e) == Count(events, e) = Count(parsed, e)
Dropped(e) == Count(events, e) = 0

\* C1: every all-day event the parser builds is kept by the filter on its
\* begin_date and dropped on its end_date.
C1_AllDayHalfOpen ==
    Filtered =>
        \A e \in Range(parsed) :
            e.kind = "AllDay" =>
                /\ (now.date = e.begin_date => Kept(e))
                /\ (now.date = e.end_date => Dropped(e))

\* C2: the timestamp is read once per run: every printed line is rendered
\* against the timestamp the filter used.
C2_SingleTimestamp ==
    \A i \in DOMAIN out :
        /\ out[i].at = now
        /\ out[i].text = fmt(events[i], now.time)

\* C3: if any document of the run cannot be processed, no event line is ever
\* printed and the run ends in an error outcome.
C3_AllOrNothing ==
    (\E i \in DOMAIN docs : parse_cal_file(docs[i]).tag # "Ok") =>
        /\ out = <<>>
        /\ (pc = "done" => outcome \in {"Err", "Panic"})

\* a run ended in error at its second document although the first one parsed
\* to an event that is active
C3_Witness ==
    /\ pc = "done"
    /\ outcome = "Err"
    /\ Len(docs) >= 2
    /\ parse_cal_file(docs[1]).tag = "Ok"
    /\ IsActive(parse_cal_file(docs[1]).val, now)
    /\ parse_cal_file(docs[2]).tag = "Err"

\* C4: after the sort every all-day event stands before every timed event,
\* the timed events ascend by begin, and timed events with equal begin keep
\* the order they had in the input.
C4_SortOrder ==
    Filtered =>
        /\ \A i, j \in DOMAIN events :
              i < j => ~(IsTimed(events[i]) /\ ~IsTimed(events[j]))
        /\ \A i, j \in DOMAIN events :
              (i < j /\ IsTimed(events[i]) /\ IsTimed(events[j]))
                  => events[i].begin <= events[j].begin
        /\ \A t \in Range(TimeTable) :
              SelectSeq(events, LAMBDA e : IsTimed(e) /\ e.begin = t)
                  = SelectSeq(filter(parsed, now), LAMBDA e : IsTimed(e) /\ e.begin = t)

\* an all-day event read between two different timed events of equal begin
\* has been moved in front of both
C4_Witness ==
    /\ Filtered
    /\ Len(parsed) = 3
    /\ Len(events) = 3
    /\ IsTimed(parsed[1]) /\ ~IsTimed(parsed[2]) /\ IsTimed(parsed[3])
    /\ parsed[1].begin = parsed[3].begin
    /\ parsed[1] # parsed[3]
    /\ events = <<parsed[2], parsed[1], parsed[3]>>

\* C5: the comparator of the sort is a total preorder on the events, also on
\* two all-day events, and sorting the sorted list again leaves it as it is.
C5_TotalPreorder ==
    Filtered =>
        /\ \A a, b, c \in Range(events) :
              /\ cmp(a, a) = "Equal"
              /\ (cmp(a, b) = "Less" => cmp(b, a) = "Greater")
              /\ (cmp(a, b) = "Less" /\ cmp(b, c) = "Less" => cmp(a, c) = "Less")
        /\ \A impl \in SortImpls : sort_by(events, impl) = events

\* C6: a recurring event is kept iff the weekday of now.date is one of its
\* recur_days, now.date is not before begin_recur, not after end_recur when
\* there is one, and its end is not before now.time; on a weekday outside
\* recur_days it is dropped whatever its other fields.
C6_RecurringFilter ==
    Filtered =>
        \A e \in Range(parsed) :
            e.kind = "Recurring" =>
                LET due == /\ weekday(now.date) \in Range(e.recur_days)
                           /\ now.date >= e.begin_recur
                           /\ (e.end_recur = <<>> \/ now.date <= e.end_recur[1])
                           /\ e.end >= now.time
                IN  /\ (due => Kept(e))
                    /\ (~due => Dropped(e))
                    /\ (weekday(now.date) \notin Range(e.recur_days) => Dropped(e))

\* a recurring event is kept on the last day of its recurrence
C6_Witness ==
    /\ Filtered
    /\ Len(events) = 1
    /\ events[1].kind = "Recurring"
    /\ events[1].end_recur # <<>>
    /\ events[1].end_recur[1] = now.date

\* C7: a single event is kept iff now.date is its day and now.time is not
\* after its end, whatever its begin.
C7_OnceFilter ==
    Filtered =>
        \A e \in Range(parsed) :
            e.kind = "Once" =>
                /\ ((now.date = e.day /\ now.time <= e.end) => Kept(e))
                /\ (~(now.date = e.day /\ now.time <= e.end) => Dropped(e))

\* a single event that has begun and not ended is kept
C7_Witness ==
    /\ Filtered
    /\ Len(events) = 1
    /\ events[1].kind = "Once"
    /\ events[1].begin < now.time

\* the non-empty daysOfWeek values of a document's lines
InlineValues(doc) ==
    {Tail0(doc[k], 2) : k \in {i \in DOMAIN doc :
        Len(doc[i]) > 2 /\ doc[i][1] = "daysOfWeek" /\ doc[i][2] = ":"}}

\* parse_cal_file has run on document i
Processed(i) == idx > i \/ (idx = i /\ pc \in {"report", "done"})

\* position of the first "]" after position open, 0 if there is none
CloseAfter(v, open) ==
    IF \E j \in DOMAIN v : j > open /\ v[j] = "]"
    THEN CHOOSE j \in DOMAIN v :
            j > open /\ v[j] = "]" /\ \A k \in (open + 1)..(j - 1) : v[k] # "]"
    ELSE 0

\* C8: a non-empty daysOfWeek value yields the comma-split text between its
\* first "[" and the first "]" after it; a value with no "[", or with no "]"
\* after the "[", ends the parse with an error value, never with a crash.
C8_InlineList ==
    \A i \in DOMAIN docs :
        Processed(i) =>
            \A v \in InlineValues(docs[i]) :
                LET open == Find(v, "[")
                    close == CloseAfter(v, open)
                    inner == split(SubSeq(v, open + 1, close - 1), ",")
                IN  IF open = 0 \/ close = 0
                    THEN /\ InlineList(v).tag = "Err"
                         /\ (pc = "done" => outcome = "Err")
                    ELSE /\ InlineList(v).tag = "Ok"
                         /\ InlineList(v).val = [k \in DOMAIN inner |-> trim_start(inner[k])]
                         /\ outcome # "Panic"

\* C9: every recurring event the parser builds has at least one weekday.
C9_RecurDaysNonEmpty ==
    \A e \in Range(parsed) : e.kind = "Recurring" => e.recur_days # <<>>

\* C10: the countdown of a timed line is (Now) whenever begin minus the time
\* read is negative, minutes when it is from 0 to under 60 minutes, hours
\* otherwise.
C10_Countdown ==
    \A i \in DOMAIN out :
        out[i].text.form = "timed" =>
            LET d == events[i].begin - out[i].at.time
                shown == out[i].text.delta
            IN  /\ (d < 0 => shown.kind = "Now")
                /\ (d >= 0 /\ d < 3600 => shown.kind = "min" /\ shown.n = d \div 60)
                /\ (d >= 3600 => shown.kind = "hour" /\ shown.n = d \div 3600)

====
